---- MODULE Spec2Model ----
(***************************************************************************)
(* Model of binding.py: binding keys, the tiered merge of binding lists    *)
(* into a BindingMapping, BindingMapping.get, BindingContext.get_child     *)
(* and the lock-protected Binder.bind.                                     *)
(***************************************************************************)
EXTENDS Integers, Sequences, FiniteSets, TLC

VARIABLES
    bindings_lists,   \* argument of get_overall_binding_key_to_binding_maps
    merge_out,        \* NotRun, or the outcome of the merge (maps or error)
    get_out,          \* NotRun, or the outcome of the last BindingMapping.get
    contexts,         \* the BindingContext objects created so far
    child_out,        \* NotRun, or the outcome of the last get_child call
    collected_bindings,  \* Binder._collected_bindings, the shared list
    initial_bindings,    \* the list as it was handed to Binder.__init__
    lock,             \* Binder._lock: None, or the thread holding it
    pc,               \* per thread: where it is inside bind
    frame,            \* per thread: the locals of its bind call in progress
    bind_out,         \* NotRun, or the outcome of the last finished bind call
    returned,         \* per thread: its bind calls that returned, in order
    tier_out,         \* NotRun, or the per-list maps computed by the merge
    collect_in,       \* the classes and functions given to get_explicit_bindings
    collect_out,      \* NotRun, or the outcome of get_explicit_bindings
    key_in,           \* the two objects compared: binding keys or another object
    key_out,          \* NotRun, or the outcome of ==, != and hash on key_in
    class_name,       \* argument of default_get_arg_names_from_class_name
    names_call         \* NotRun, or the list it returned

vars == <<bindings_lists, merge_out, get_out, contexts, child_out,
          collected_bindings, initial_bindings, lock, pc, frame, bind_out,
          returned, tier_out, collect_in, collect_out, key_in, key_out,
          class_name, names_call>>
mergeVars == <<bindings_lists, merge_out, get_out, tier_out>>
collectVars == <<collect_in, collect_out>>
keyVars == <<key_in, key_out>>
nameVars == <<class_name, names_call>>
pureVars == <<collectVars, keyVars, nameVars>>
contextVars == <<contexts, child_out>>
binderVars == <<collected_bindings, initial_bindings, lock, pc, frame,
                bind_out, returned>>

(***************************************************************************)
(* Bounds of the model.                                                    *)
(***************************************************************************)
MaxTiers == 3
MaxBindings == 5
MaxContexts == 4
MaxBindCalls == 3

(***************************************************************************)
(* Values.                                                                 *)
(***************************************************************************)
None == "None"
NotRun == [kind |-> "NotRun"]

PROTOTYPE == "prototype"
SINGLETON == "singleton"
UNSCOPED == "unscoped"

ArgNames == {"foo", "bar"}

NO_ANNOTATION == <<"NoAnnotation", None>>
Annotation(annotation_obj) == <<"Annotation", annotation_obj>>

BindingKey(arg_name, annotation) ==
    [arg_name |-> arg_name, annotation |-> annotation]

new_binding_key(arg_name, annotated_with) ==
    IF annotated_with # None
    THEN BindingKey(arg_name, Annotation(annotated_with))
    ELSE BindingKey(arg_name, NO_ANNOTATION)

Binding(binding_key, proviser_fn, scope_id, desc) ==
    [binding_key |-> binding_key, proviser_fn |-> proviser_fn,
     scope_id |-> scope_id, desc |-> desc]

(***************************************************************************)
(* Python dict operations on maps modelled as functions.                   *)
(***************************************************************************)
EmptyMap == <<>>

DictSet(d, k, v) ==
    [x \in DOMAIN d \cup {k} |-> IF x = k THEN v ELSE d[x]]

DictDel(d, k) == [x \in DOMAIN d \ {k} |-> d[x]]

DictUpdate(d, other) ==
    [x \in DOMAIN d \cup DOMAIN other |->
        IF x \in DOMAIN other THEN other[x] ELSE d[x]]

(***************************************************************************)
(* Outcomes of the per-tier and overall merge.                             *)
(***************************************************************************)
Maps(b2b, coll) ==
    [kind |-> "maps", binding_key_to_binding |-> b2b,
     collided_binding_key_to_bindings |-> coll]

ConflictingBindingsError(bindings) ==
    [kind |-> "ConflictingBindingsError", bindings |-> bindings]

\* _handle_explicit_binding_collision: always raises.
handle_explicit_binding_collision(colliding_binding, b2b, coll) ==
    ConflictingBindingsError(
        <<colliding_binding, b2b[colliding_binding.binding_key]>>)

\* Variant: the binding that held the key so far is not put into the
\* collided table.
handle_implicit_binding_collision_DropsFirst(colliding_binding, b2b, coll) ==
    LET binding_key == colliding_binding.binding_key
        bindings == IF binding_key \in DOMAIN coll
                    THEN coll[binding_key] ELSE {}
    IN  Maps(DictDel(b2b, binding_key),
             DictSet(coll, binding_key, bindings))

\* _handle_implicit_binding_collision: moves the key to the collided table.
handle_implicit_binding_collision(colliding_binding, b2b, coll) ==
    LET binding_key == colliding_binding.binding_key
        bindings == IF binding_key \in DOMAIN coll
                    THEN coll[binding_key] ELSE {}
    IN  Maps(DictDel(b2b, binding_key),
             DictSet(coll, binding_key, bindings \cup {b2b[binding_key]}))

handle_binding_collision_fn(is_final_index, colliding_binding, b2b, coll) ==
    IF is_final_index
    THEN handle_explicit_binding_collision(colliding_binding, b2b, coll)
    ELSE handle_implicit_binding_collision(colliding_binding, b2b, coll)

\* One iteration of the loop of _get_binding_key_to_binding_maps, on maps m.
TierStep(binding_, m, is_final_index) ==
    LET binding_key == binding_.binding_key
        h == IF binding_key \in DOMAIN m.binding_key_to_binding
             THEN handle_binding_collision_fn(
                      is_final_index, binding_,
                      m.binding_key_to_binding,
                      m.collided_binding_key_to_bindings)
             ELSE m
    IN  IF h.kind # "maps" THEN h
        ELSE IF binding_key \in DOMAIN h.collided_binding_key_to_bindings
        THEN Maps(h.binding_key_to_binding,
                  DictSet(h.collided_binding_key_to_bindings, binding_key,
                          h.collided_binding_key_to_bindings[binding_key]
                              \cup {binding_}))
        ELSE Maps(DictSet(h.binding_key_to_binding, binding_key, binding_),
                  h.collided_binding_key_to_bindings)

RECURSIVE TierLoop(_, _, _, _)
TierLoop(bindings, i, m, is_final_index) ==
    IF m.kind # "maps" \/ i > Len(bindings) THEN m
    ELSE TierLoop(bindings, i + 1,
                  TierStep(bindings[i], m, is_final_index), is_final_index)

get_binding_key_to_binding_maps(bindings, is_final_index) ==
    TierLoop(bindings, 1, Maps(EmptyMap, EmptyMap), is_final_index)

\* Variant: the resolved keys of the tier are left in the collided table.
PopGoodKeys_Kept(coll, this_b2b) == coll

\* Lines 185-186: keys resolved in this tier leave the running collided table.
PopGoodKeys(coll, this_b2b) ==
    [x \in DOMAIN coll \ DOMAIN this_b2b |-> coll[x]]

\* Variant: the running resolved map wins over the tier's bindings.
UpdateResolved_LowerWins(b2b, this_b2b) == DictUpdate(this_b2b, b2b)

\* Line 187: the tier's resolved bindings overwrite the running resolved map.
UpdateResolved(b2b, this_b2b) == DictUpdate(b2b, this_b2b)

\* Variant: the tier's collided entries are dropped.
UpdateCollided_Dropped(coll, this_coll) == coll

\* Lines 188-189: the tier's collided entries overwrite the running table.
UpdateCollided(coll, this_coll) == DictUpdate(coll, this_coll)

\* Variant: no list is treated as the explicit one.
IsFinalIndex_Never(index, lists) == FALSE

\* Line 179.
IsFinalIndex(index, lists) == index = Len(lists)

\* Variant: a key that collides in the tier also leaves the running
\* resolved map.
OverallStep_CollisionUnresolves(lists, index, m) ==
    LET this == get_binding_key_to_binding_maps(
                    lists[index], IsFinalIndex(index, lists))
    IN  IF this.kind # "maps" THEN this
        ELSE Maps(UpdateResolved(
                      [x \in DOMAIN m.binding_key_to_binding
                                \ DOMAIN this.collided_binding_key_to_bindings
                          |-> m.binding_key_to_binding[x]],
                      this.binding_key_to_binding),
                  UpdateCollided(
                      PopGoodKeys(m.collided_binding_key_to_bindings,
                                  this.binding_key_to_binding),
                      this.collided_binding_key_to_bindings))

\* The body of the loop of get_overall_binding_key_to_binding_maps.
OverallStep(lists, index, m) ==
    LET this == get_binding_key_to_binding_maps(
                    lists[index], IsFinalIndex(index, lists))
    IN  IF this.kind # "maps" THEN this
        ELSE Maps(UpdateResolved(m.binding_key_to_binding,
                                 this.binding_key_to_binding),
                  UpdateCollided(
                      PopGoodKeys(m.collided_binding_key_to_bindings,
                                  this.binding_key_to_binding),
                      this.collided_binding_key_to_bindings))

RECURSIVE OverallLoop(_, _, _)
OverallLoop(lists, index, m) ==
    IF m.kind # "maps" \/ index > Len(lists) THEN m
    ELSE OverallLoop(lists, index + 1, OverallStep(lists, index, m))

get_overall_binding_key_to_binding_maps(lists) ==
    OverallLoop(lists, 1, Maps(EmptyMap, EmptyMap))

(***************************************************************************)
(* BindingMapping.get                                                      *)
(***************************************************************************)
BindingMapping_get(mapping, binding_key) ==
    IF binding_key \in DOMAIN mapping.binding_key_to_binding
    THEN [kind |-> "binding", binding_key |-> binding_key,
          binding |-> mapping.binding_key_to_binding[binding_key],
          bindings |-> {}]
    ELSE IF binding_key \in DOMAIN mapping.collided_binding_key_to_bindings
    THEN [kind |-> "AmbiguousArgNameError", binding_key |-> binding_key,
          binding |-> None,
          bindings |-> mapping.collided_binding_key_to_bindings[binding_key]]
    ELSE [kind |-> "NothingInjectableForArgError",
          binding_key |-> binding_key, binding |-> None, bindings |-> {}]

(***************************************************************************)
(* Binder: threads and the state of a Binder nobody has called yet,        *)
(* constructed on the list collected.                                      *)
(***************************************************************************)
Threads == {"t1", "t2"}

\* The lists a Binder is constructed on: empty, or holding a binding
\* collected before any bind call.
InitialBindings ==
    {<<>>,
     <<Binding(new_binding_key("foo", None),
               [kind |-> "proviser_fn", provides |-> "class",
                target |-> "SomeClass"],
               PROTOTYPE, <<"collected", 1>>)>>}

BinderOn(collected) ==
    /\ initial_bindings = collected
    /\ collected_bindings = collected
    /\ lock = None
    /\ pc = [t \in Threads |-> "idle"]
    /\ frame = [t \in Threads |-> NotRun]
    /\ bind_out = NotRun
    /\ returned = [t \in Threads |-> <<>>]

BinderUnused == BinderOn(<<>>)

\* The states of the parts a specification does not exercise.
MergeUnused ==
    /\ bindings_lists = <<>>
    /\ merge_out = NotRun
    /\ get_out = NotRun
    /\ tier_out = NotRun

ContextUnused ==
    /\ contexts = <<>>
    /\ child_out = NotRun

CollectUnused ==
    /\ collect_in = NotRun
    /\ collect_out = NotRun

KeysUnused ==
    /\ key_in = NotRun
    /\ key_out = NotRun

NamesUnused ==
    /\ class_name = <<>>
    /\ names_call = NotRun

PureUnused == CollectUnused /\ KeysUnused /\ NamesUnused

(***************************************************************************)
(* Inputs of the merge: up to MaxTiers lists holding up to MaxBindings     *)
(* distinct Binding objects in all, each for one of the MergeKeys.         *)
(***************************************************************************)
MergeKeys == {new_binding_key(a, None) : a \in ArgNames}

SeqsUpTo(S, n) == UNION {[1..m -> S] : m \in 0..n}

Monotone(f) == \A i, j \in DOMAIN f : i <= j => f[i] <= f[j]

RECURSIVE SelectTier(_, _, _, _)
SelectTier(keys, tierOf, t, i) ==
    IF i > Len(keys) THEN <<>>
    ELSE IF tierOf[i] = t
    THEN <<Binding(keys[i], "class", PROTOTYPE, i)>>
             \o SelectTier(keys, tierOf, t, i + 1)
    ELSE SelectTier(keys, tierOf, t, i + 1)

MergeInputs ==
    UNION { UNION { { [t \in 1..n |-> SelectTier(keys, tierOf, t, 1)] :
                      tierOf \in {f \in [1..Len(keys) -> 1..n] : Monotone(f)} } :
                    keys \in SeqsUpTo(MergeKeys, MaxBindings) } :
            n \in 0..MaxTiers }

(***************************************************************************)
(* The merge as a state machine: the merge runs once on the frozen input,  *)
(* then the BindingMapping built from its maps is queried.                 *)
(***************************************************************************)
InitMerge ==
    /\ bindings_lists \in MergeInputs
    /\ merge_out = NotRun
    /\ get_out = NotRun
    /\ tier_out = NotRun
    /\ contexts = <<>>
    /\ child_out = NotRun
    /\ BinderUnused
    /\ PureUnused

\* Lines 183-184 for every list the loop reaches: the maps of each list.
TierMaps(lists) ==
    [index \in 1..Len(lists) |->
        get_binding_key_to_binding_maps(lists[index],
                                        IsFinalIndex(index, lists))]

Merge ==
    /\ merge_out = NotRun
    /\ merge_out' = get_overall_binding_key_to_binding_maps(bindings_lists)
    /\ tier_out' = TierMaps(bindings_lists)
    /\ UNCHANGED <<bindings_lists, get_out, contextVars, binderVars, pureVars>>

\* Variant: a lookup that raises AmbiguousArgNameError takes the collided
\* entry out of the table.
MappingAfterGet_PopsCollided(mapping, binding_key) ==
    IF binding_key \in DOMAIN mapping.binding_key_to_binding
    THEN mapping
    ELSE [mapping EXCEPT !.collided_binding_key_to_bindings =
                             DictDel(@, binding_key)]

\* Lines 202-210: the two maps of the mapping once get is over; get
\* assigns to neither.
MappingAfterGet(mapping, binding_key) == mapping

Get(binding_key) ==
    /\ merge_out.kind = "maps"
    /\ get_out' = BindingMapping_get(merge_out, binding_key)
    /\ merge_out' = MappingAfterGet(merge_out, binding_key)
    /\ UNCHANGED <<bindings_lists, tier_out, contextVars,
                   binderVars, pureVars>>

GetAny == \E binding_key \in MergeKeys : Get(binding_key)

NextMerge == Merge \/ GetAny

SpecMerge == InitMerge /\ [][NextMerge]_vars

(***************************************************************************)
(* BindingContext: new_binding_context and get_child.  contexts holds the  *)
(* objects created so far; parent records which context a child was        *)
(* derived from (0 for a context made by new_binding_context).             *)
(***************************************************************************)
Range(seq) == {seq[i] : i \in DOMAIN seq}

ContextKeys == {new_binding_key("foo", None), new_binding_key("bar", None),
                new_binding_key("foo", "ann")}

ChildScopes == {PROTOTYPE, SINGLETON}

BindingContext(binding_key_stack, scope_id, parent) ==
    [binding_key_stack |-> binding_key_stack, scope_id |-> scope_id,
     parent |-> parent]

\* Outcomes of get_child: the error with the stack it carries, or the index
\* in contexts of the returned child.
CyclicInjectionError(self, binding_key, scope_id, binding_key_stack) ==
    [kind |-> "CyclicInjectionError", receiver |-> self,
     binding_key |-> binding_key, scope_id |-> scope_id,
     binding_key_stack |-> binding_key_stack, child |-> 0]

Returned(self, binding_key, scope_id, child) ==
    [kind |-> "context", receiver |-> self,
     binding_key |-> binding_key, scope_id |-> scope_id,
     binding_key_stack |-> <<>>, child |-> child]

\* Lines 224-225: a copy of the receiver's stack with the key appended.
new_binding_key_stack(self, binding_key) ==
    Append(contexts[self].binding_key_stack, binding_key)

\* Variant: the key is looked up in the stacks of all live contexts.
IsCyclic_AnyContext(self, binding_key) ==
    \E c \in DOMAIN contexts : binding_key \in Range(contexts[c].binding_key_stack)

\* Variant: only the innermost key of the receiver's stack is compared.
IsCyclic_TopOnly(self, binding_key) ==
    LET stack == contexts[self].binding_key_stack
    IN  stack # <<>> /\ stack[Len(stack)] = binding_key

\* Line 226: binding_key in self._binding_key_stack.
IsCyclic(self, binding_key) ==
    binding_key \in Range(contexts[self].binding_key_stack)

\* Variant: the child keeps the scope of its receiver.
ChildContext_ReceiverScope(self, binding_key, scope_id) ==
    BindingContext(new_binding_key_stack(self, binding_key),
                   contexts[self].scope_id, self)

\* Line 228.
ChildContext(self, binding_key, scope_id) ==
    BindingContext(new_binding_key_stack(self, binding_key), scope_id, self)

InitContext ==
    /\ contexts = <<>>
    /\ child_out = NotRun
    /\ bindings_lists = <<>>
    /\ merge_out = NotRun
    /\ get_out = NotRun
    /\ tier_out = NotRun
    /\ BinderUnused
    /\ PureUnused

\* new_binding_context(): a fresh context, empty stack, unscoped.
NewBindingContext ==
    /\ Len(contexts) < MaxContexts
    /\ contexts' = Append(contexts, BindingContext(<<>>, UNSCOPED, 0))
    /\ UNCHANGED <<child_out, mergeVars, binderVars, pureVars>>

\* Variant: the key is appended to the receiver's own list, not to a copy.
ReceiverAfterGetChild_NoCopy(self, binding_key) ==
    [contexts[self] EXCEPT
         !.binding_key_stack = Append(@, binding_key)]

\* Lines 224-225: the receiver once get_child is over; the key is appended
\* to a copy of its stack, its own fields are not assigned.
ReceiverAfterGetChild(self, binding_key) == contexts[self]

\* self.get_child(binding_key, scope_id)
GetChild(self, binding_key, scope_id) ==
    /\ IF IsCyclic(self, binding_key)
       THEN /\ child_out' = CyclicInjectionError(
                                self, binding_key, scope_id,
                                new_binding_key_stack(self, binding_key))
            /\ contexts' = [contexts EXCEPT
                    ![self] = ReceiverAfterGetChild(self, binding_key)]
       ELSE /\ Len(contexts) < MaxContexts
            /\ contexts' = Append(
                    [contexts EXCEPT
                         ![self] = ReceiverAfterGetChild(self, binding_key)],
                    ChildContext(self, binding_key, scope_id))
            /\ child_out' = Returned(self, binding_key, scope_id,
                                     Len(contexts) + 1)
    /\ UNCHANGED <<mergeVars, binderVars, pureVars>>

GetChildAny ==
    \E self \in DOMAIN contexts, binding_key \in ContextKeys,
       scope_id \in ChildScopes :
        GetChild(self, binding_key, scope_id)

NextContext == NewBindingContext \/ GetChildAny

SpecContext == InitContext /\ [][NextContext]_vars

(***************************************************************************)
(* Binder.bind and create_proviser_fn.                                     *)
(***************************************************************************)
\* The objects passed as binding targets: a class, a function, and an
\* object that is neither a class nor callable.
SomeClass == "SomeClass"
some_fn == "some_fn"
some_obj == "some_obj"
Objects == {SomeClass, some_fn, some_obj}

isclass(obj) == obj = SomeClass
callable(obj) == obj \in {SomeClass, some_fn}

\* Binder._scope_ids, and the scope ids passed to bind.
scope_ids == {PROTOTYPE, SINGLETON}
UnknownScope == "unknown_scope"

BindError(kind, binding_key) == [kind |-> kind, binding_key |-> binding_key]

\* Variant: the shape of a target is checked before the number of targets.
create_proviser_fn_ShapeFirst(binding_key, to_class, to_instance, to_provider) ==
    LET specified_to_params ==
            (IF to_class # None THEN <<"to_class">> ELSE <<>>)
            \o (IF to_instance # None THEN <<"to_instance">> ELSE <<>>)
            \o (IF to_provider # None THEN <<"to_provider">> ELSE <<>>)
    IN  IF to_class # None /\ ~isclass(to_class)
        THEN BindError("InvalidBindingTargetError", binding_key)
        ELSE IF to_provider # None /\ ~callable(to_provider)
        THEN BindError("InvalidBindingTargetError", binding_key)
        ELSE IF specified_to_params = <<>>
        THEN BindError("NoBindingTargetError", binding_key)
        ELSE IF Len(specified_to_params) > 1
        THEN BindError("MultipleBindingTargetsError", binding_key)
        ELSE IF to_class # None
        THEN [kind |-> "proviser_fn", provides |-> "class",
              target |-> to_class]
        ELSE IF to_instance # None
        THEN [kind |-> "proviser_fn", provides |-> "instance",
              target |-> to_instance]
        ELSE [kind |-> "proviser_fn", provides |-> "provider",
              target |-> to_provider]

\* create_proviser_fn: the proviser function, or the error raised.
create_proviser_fn(binding_key, to_class, to_instance, to_provider) ==
    LET specified_to_params ==
            (IF to_class # None THEN <<"to_class">> ELSE <<>>)
            \o (IF to_instance # None THEN <<"to_instance">> ELSE <<>>)
            \o (IF to_provider # None THEN <<"to_provider">> ELSE <<>>)
    IN  IF specified_to_params = <<>>
        THEN BindError("NoBindingTargetError", binding_key)
        ELSE IF Len(specified_to_params) > 1
        THEN BindError("MultipleBindingTargetsError", binding_key)
        ELSE IF to_class # None
        THEN IF ~isclass(to_class)
             THEN BindError("InvalidBindingTargetError", binding_key)
             ELSE [kind |-> "proviser_fn", provides |-> "class",
                   target |-> to_class]
        ELSE IF to_instance # None
        THEN [kind |-> "proviser_fn", provides |-> "instance",
              target |-> to_instance]
        ELSE IF ~callable(to_provider)
        THEN BindError("InvalidBindingTargetError", binding_key)
        ELSE [kind |-> "proviser_fn", provides |-> "provider",
              target |-> to_provider]

BindArgs ==
    [arg_name : ArgNames, annotated_with : {None},
     to_class : {None} \cup Objects, to_instance : {None, some_obj},
     to_provider : {None} \cup Objects,
     in_scope : scope_ids \cup {UnknownScope}]

\* Bind calls that passed validation: appended to the list or in progress.
BindCallsStarted ==
    Len(collected_bindings) - Len(initial_bindings)
        + Cardinality({t \in Threads : pc[t] # "idle"})

InitBinder ==
    /\ \E collected \in InitialBindings : BinderOn(collected)
    /\ bindings_lists = <<>>
    /\ merge_out = NotRun
    /\ get_out = NotRun
    /\ tier_out = NotRun
    /\ contexts = <<>>
    /\ child_out = NotRun
    /\ PureUnused

\* Variant: the targets are validated before the scope.
BindValidation_TargetsFirst(args) ==
    LET proviser_fn == create_proviser_fn(
                           new_binding_key(args.arg_name, args.annotated_with),
                           args.to_class, args.to_instance, args.to_provider)
    IN  IF proviser_fn.kind # "proviser_fn" THEN proviser_fn.kind
        ELSE IF args.in_scope \notin scope_ids THEN "UnknownScopeError"
        ELSE "proviser_fn"

\* Lines 362-366: the error bind raises before it takes the lock, or
\* "proviser_fn" when the scope check and create_proviser_fn both pass.
BindValidation(args) ==
    IF args.in_scope \notin scope_ids THEN "UnknownScopeError"
    ELSE create_proviser_fn(
             new_binding_key(args.arg_name, args.annotated_with),
             args.to_class, args.to_instance, args.to_provider).kind

\* Lines 362-366: the scope check, new_binding_key and create_proviser_fn.
\* They read only the arguments and the immutable _scope_ids.
BindEnter(t, args) ==
    /\ pc[t] = "idle"
    /\ LET binding_key == new_binding_key(args.arg_name, args.annotated_with)
           proviser_fn == create_proviser_fn(
                              binding_key, args.to_class, args.to_instance,
                              args.to_provider)
       IN  IF BindValidation(args) # "proviser_fn"
           THEN /\ bind_out' = [kind |-> BindValidation(args), thread |-> t,
                                 args |-> args]
                /\ UNCHANGED <<pc, frame>>
           ELSE /\ BindCallsStarted < MaxBindCalls
                /\ pc' = [pc EXCEPT ![t] = "acquire"]
                /\ frame' = [frame EXCEPT ![t] =
                        [args |-> args, binding_key |-> binding_key,
                         proviser_fn |-> proviser_fn,
                         back_frame |-> <<t, Len(returned[t]) + 1>>]]
                /\ UNCHANGED bind_out
    /\ UNCHANGED <<collected_bindings, initial_bindings, lock, returned,
                   mergeVars, contextVars, pureVars>>

\* Line 367: with self._lock (entry).
BindAcquire(t) ==
    /\ pc[t] = "acquire"
    /\ lock = None
    /\ lock' = t
    /\ pc' = [pc EXCEPT ![t] = "append"]
    /\ UNCHANGED <<collected_bindings, initial_bindings, frame, bind_out,
                   returned, mergeVars, contextVars, pureVars>>

\* Variant: the Binding is built with the default scope of Binding.__init__.
NewBinding_DefaultScope(t) ==
    Binding(frame[t].binding_key, frame[t].proviser_fn, PROTOTYPE,
            frame[t].back_frame)

\* Lines 369-372: the Binding built from the locals of the call.
NewBinding(t) ==
    Binding(frame[t].binding_key, frame[t].proviser_fn,
            frame[t].args.in_scope, frame[t].back_frame)

\* Variant: the new Binding is put in front of the list.
BindAppend_AtFront(t) ==
    /\ pc[t] = "append"
    /\ collected_bindings' = <<NewBinding(t)>> \o collected_bindings
    /\ pc' = [pc EXCEPT ![t] = "release"]
    /\ UNCHANGED <<initial_bindings, lock, frame, bind_out, returned,
                   mergeVars, contextVars, pureVars>>

\* Lines 368-372: the append, under the lock.
BindAppend(t) ==
    /\ pc[t] = "append"
    /\ collected_bindings' = Append(collected_bindings, NewBinding(t))
    /\ pc' = [pc EXCEPT ![t] = "release"]
    /\ UNCHANGED <<initial_bindings, lock, frame, bind_out, returned,
                   mergeVars, contextVars, pureVars>>

\* Line 372: leaving the with block releases the lock; bind returns.
BindRelease(t) ==
    /\ pc[t] = "release"
    /\ lock' = None
    /\ pc' = [pc EXCEPT ![t] = "idle"]
    /\ returned' = [returned EXCEPT ![t] = Append(@,
            [args |-> frame[t].args, back_frame |-> frame[t].back_frame])]
    /\ bind_out' = [kind |-> "returned", thread |-> t,
                     args |-> frame[t].args]
    /\ frame' = [frame EXCEPT ![t] = NotRun]
    /\ UNCHANGED <<collected_bindings, initial_bindings, mergeVars,
                   contextVars, pureVars>>

\* The calls made by the concurrent declaration sites: two argument names,
\* known and unknown scopes, a class target or no target.
ConcurrentBindArgs ==
    {args \in BindArgs : args.to_instance = None /\ args.to_provider = None
                            /\ args.to_class \in {None, SomeClass}}

BindEnterAny ==
    \E t \in Threads, args \in ConcurrentBindArgs : BindEnter(t, args)
BindAcquireAny == \E t \in Threads : BindAcquire(t)
BindAppendAny == \E t \in Threads : BindAppend(t)
BindReleaseAny == \E t \in Threads : BindRelease(t)

NextBinder ==
    BindEnterAny \/ BindAcquireAny \/ BindAppendAny \/ BindReleaseAny

SpecBinder == InitBinder /\ [][NextBinder]_vars

\* ---------------------------------------------------------------------
\* get_explicit_bindings: the collector of classes and functions.
\* ---------------------------------------------------------------------

MaxClasses == 1
MaxFunctions == 2
MaxProviders == 2

UnknownScopeError(scope_id) ==
    [kind |-> "UnknownScopeError", scope_id |-> scope_id]

\* A provider binding as wrapping.get_any_provider_bindings hands it over:
\* a Binding whose scope was chosen by the decorator.
ProviderBinding(arg_name, scope_id) ==
    Binding(new_binding_key(arg_name, None),
            [kind |-> "proviser_fn", provides |-> "provider",
             target |-> some_fn],
            scope_id, <<"provider", arg_name, scope_id>>)

ProviderBindings ==
    {ProviderBinding("foo", scope_id) :
         scope_id \in scope_ids \cup {UnknownScope}}

\* A function is the list of its provider bindings.
Function(provider_bindings) == [provider_bindings |-> provider_bindings]

\* The elements of flat that owner gives to the function at index.
RECURSIVE SelectOwned(_, _, _, _)
SelectOwned(flat, owner, index, i) ==
    IF i > Len(flat) THEN <<>>
    ELSE IF owner[i] = index
    THEN <<flat[i]>> \o SelectOwned(flat, owner, index, i + 1)
    ELSE SelectOwned(flat, owner, index, i + 1)

\* Functions, as the split of a flat list of provider bindings.
Functions ==
    UNION {
      UNION {
        {[index \in 1..n |->
              Function(SelectOwned(flat, owner, index, 1))] :
             owner \in {f \in [1..Len(flat) -> 1..n] : Monotone(f)}} :
        flat \in SeqsUpTo(ProviderBindings, MaxProviders)} :
      n \in 0..MaxFunctions}

\* A class: its injectable binding keys, its @bound_to keys and its
\* member functions.
Classes ==
    [cls : {SomeClass},
     class_binding_keys :
         {<<>>, <<new_binding_key("foo", None)>>},
     bound_to_keys :
         {<<>>, <<new_binding_key("bar", None)>>},
     members :
         {<<>>} \cup {<<Function(<<ProviderBinding("bar", scope_id)>>)>> :
                          scope_id \in {SINGLETON, UnknownScope}}]

CollectInputs ==
    [classes : SeqsUpTo(Classes, MaxClasses), functions : Functions]

\* Lines 272-276 and 277-281: one Binding per key, to the class, in the
\* default scope.
ClassBindings(cls, binding_keys, desc) ==
    [index \in 1..Len(binding_keys) |->
         Binding(binding_keys[index],
                 create_proviser_fn(binding_keys[index], cls.cls, None, None),
                 PROTOTYPE, <<desc, cls.cls>>)]

\* Lines 270-283: the loop over the classes, which yields the class
\* bindings and the member functions appended to all_functions.
RECURSIVE ClassesLoop(_, _, _, _)
ClassesLoop(classes, index, explicit_bindings, all_functions) ==
    IF index > Len(classes)
    THEN [explicit_bindings |-> explicit_bindings,
          all_functions |-> all_functions]
    ELSE ClassesLoop(
             classes, index + 1,
             explicit_bindings
                 \o ClassBindings(classes[index],
                                  classes[index].class_binding_keys,
                                  "the explicitly injectable class")
                 \o ClassBindings(classes[index],
                                  classes[index].bound_to_keys,
                                  "the explicitly @bound_to class"),
             all_functions \o classes[index].members)

\* Lines 286-288: the scope check and the append of one provider binding.
ProviderStep(state, provider_binding, known_scope_ids) ==
    IF state.kind # "bindings" THEN state
    ELSE IF provider_binding.scope_id \notin known_scope_ids
    THEN UnknownScopeError(provider_binding.scope_id)
    ELSE [kind |-> "bindings",
          explicit_bindings |->
              Append(state.explicit_bindings, provider_binding)]

\* All provider bindings of the functions, in the order of the loops.
RECURSIVE ProviderBindingsOf(_)
ProviderBindingsOf(all_functions) ==
    IF all_functions = <<>> THEN <<>>
    ELSE Head(all_functions).provider_bindings
             \o ProviderBindingsOf(Tail(all_functions))

\* Lines 284-288: the loop over all functions and their provider bindings.
RECURSIVE FunctionsLoop(_, _, _, _)
FunctionsLoop(provider_bindings, index, state, known_scope_ids) ==
    IF index > Len(provider_bindings) THEN state
    ELSE FunctionsLoop(
             provider_bindings, index + 1,
             ProviderStep(state, provider_bindings[index], known_scope_ids),
             known_scope_ids)

get_explicit_bindings(classes, functions, known_scope_ids) ==
    LET after_classes == ClassesLoop(classes, 1, <<>>, functions)
    IN  FunctionsLoop(
            ProviderBindingsOf(after_classes.all_functions), 1,
            [kind |-> "bindings",
             explicit_bindings |-> after_classes.explicit_bindings],
            known_scope_ids)

\* ---------------------------------------------------------------------
\* Declaring bindings: one caller either collects the explicit bindings
\* of classes and functions, or calls bind on a Binder again and again.
\* ---------------------------------------------------------------------

MaxSeqBindCalls == 2

\* The arguments of the single caller: every number of targets, and for
\* to_class and to_provider a target of the right and of the wrong shape.
SeqBindArgs ==
    {args \in BindArgs :
         /\ args.arg_name = "foo"
         /\ args.to_class \in {None, SomeClass, some_fn}
         /\ args.to_provider \in {None, some_fn, some_obj}}

InitCollect ==
    /\ collect_in \in CollectInputs
    /\ collect_out = NotRun
    /\ KeysUnused /\ NamesUnused
    /\ MergeUnused /\ ContextUnused /\ BinderUnused

InitDeclare ==
    \/ InitCollect
    \/ /\ InitBinder
       /\ CollectUnused

Collect ==
    /\ collect_in # NotRun
    /\ collect_out = NotRun
    /\ collect_out' = get_explicit_bindings(
                          collect_in.classes, collect_in.functions, scope_ids)
    /\ UNCHANGED <<collect_in, keyVars, nameVars, mergeVars, contextVars,
                   binderVars>>

\* A bind call of the single caller; the calls that pass validation are
\* counted up to MaxSeqBindCalls.
BindEnterSeq ==
    /\ collect_in = NotRun
    /\ \E args \in SeqBindArgs :
           /\ BindEnter("t1", args)
           /\ BindCallsStarted < MaxSeqBindCalls \/ pc' = pc

NextDeclare ==
    \/ Collect
    \/ BindEnterSeq
    \/ BindAcquire("t1")
    \/ BindAppend("t1")
    \/ BindRelease("t1")

SpecDeclare == InitDeclare /\ [][NextDeclare]_vars

(***************************************************************************)
(* Vocabulary of the properties of the merge.                              *)
(***************************************************************************)
Tiers == 1..Len(bindings_lists)
ImplicitTiers == {t \in Tiers : t < Len(bindings_lists)}
ExplicitTier == Len(bindings_lists)

BindingsFor(t, K) ==
    IF t \notin Tiers THEN {}
    ELSE {bindings_lists[t][i] : i \in {j \in 1..Len(bindings_lists[t]) :
                                           bindings_lists[t][j].binding_key = K}}

Count(t, K) == Cardinality(BindingsFor(t, K))

TheBinding(t, K) == CHOOSE b \in BindingsFor(t, K) : TRUE

ExplicitHasDuplicate ==
    /\ Len(bindings_lists) > 0
    /\ \E K \in MergeKeys : Count(ExplicitTier, K) >= 2

Merged == merge_out.kind = "maps"
Resolved == DOMAIN merge_out.binding_key_to_binding
Collided == DOMAIN merge_out.collided_binding_key_to_bindings
GotFor(K) == get_out # NotRun /\ get_out.binding_key = K

\* C1: after a merge that returns, no binding key is in both returned maps.
C1_NoKeyInBothMaps ==
    Merged => Resolved \cap Collided = {}

\* C2: when the explicit (final) list holds exactly one binding for K, the
\* merge resolves K to it, K is not in the collided table, and get(K)
\* returns the explicit binding, whatever the implicit tiers hold for K.
C2_ExplicitAlwaysWins ==
    Merged /\ Len(bindings_lists) > 0 =>
        \A K \in MergeKeys :
            Count(ExplicitTier, K) = 1 =>
                /\ K \in Resolved
                /\ merge_out.binding_key_to_binding[K]
                       = TheBinding(ExplicitTier, K)
                /\ K \notin Collided
                /\ GotFor(K) =>
                       /\ get_out.kind = "binding"
                       /\ get_out.binding = TheBinding(ExplicitTier, K)

C2_Witness ==
    /\ Merged
    /\ \E K \in MergeKeys :
        /\ Count(ExplicitTier, K) = 1
        /\ \E s, t \in ImplicitTiers :
              s < t /\ Count(s, K) = 1 /\ Count(t, K) >= 2
        /\ GotFor(K)
        /\ get_out.kind = "binding"

\* C3: the merge fails with ConflictingBindingsError exactly when the final
\* (explicit) list holds two bindings with equal keys; duplicates inside or
\* across implicit tiers never make it fail.
C3_ConflictIffExplicitDuplicate ==
    merge_out # NotRun =>
        (merge_out.kind = "ConflictingBindingsError" <=> ExplicitHasDuplicate)

C3_Witness ==
    /\ merge_out.kind = "ConflictingBindingsError"
    /\ Len(bindings_lists[ExplicitTier]) = 3
    /\ bindings_lists[ExplicitTier][1].binding_key
           = bindings_lists[ExplicitTier][3].binding_key
    /\ bindings_lists[ExplicitTier][1].binding_key
           # bindings_lists[ExplicitTier][2].binding_key
    /\ \E t \in ImplicitTiers, K \in MergeKeys : Count(t, K) >= 2

\* C4 (as stated): when two implicit tiers each declare a binding for K and
\* the explicit tier declares none, K is collided and not resolved, and
\* get(K) fails with AmbiguousArgNameError naming both bindings.
C4_CrossTierCollides ==
    Merged =>
        \A K \in MergeKeys :
            \A s, t \in ImplicitTiers :
                (s < t /\ Count(s, K) = 1 /\ Count(t, K) = 1
                   /\ Count(ExplicitTier, K) = 0) =>
                    /\ K \in Collided
                    /\ K \notin Resolved
                    /\ GotFor(K) =>
                           /\ get_out.kind = "AmbiguousArgNameError"
                           /\ BindingsFor(s, K) \cup BindingsFor(t, K)
                                  \subseteq get_out.bindings

CleanTiers(K) == {t \in Tiers : Count(t, K) = 1}
HighestClean(K) == CHOOSE t \in CleanTiers(K) : \A u \in CleanTiers(K) : u <= t

\* C4 (amended): when two implicit tiers each declare exactly one binding
\* for K and the explicit tier declares none, K is resolved to the single
\* binding of the highest-priority tier holding exactly one binding for K,
\* get(K) returns that binding, and K is collided only if some tier holds
\* two or more bindings for K.
C4_HigherTierWins ==
    Merged =>
        \A K \in MergeKeys :
            \A s, t \in ImplicitTiers :
                (s < t /\ Count(s, K) = 1 /\ Count(t, K) = 1
                   /\ Count(ExplicitTier, K) = 0) =>
                    /\ K \in Resolved
                    /\ merge_out.binding_key_to_binding[K]
                           = TheBinding(HighestClean(K), K)
                    /\ (K \in Collided => \E u \in Tiers : Count(u, K) >= 2)
                    /\ GotFor(K) =>
                           /\ get_out.kind = "binding"
                           /\ get_out.binding
                                  = TheBinding(HighestClean(K), K)

C4_Witness ==
    /\ Merged
    /\ \E K \in MergeKeys :
        /\ Count(1, K) = 1 /\ Count(2, K) = 1
        /\ ExplicitTier = 3 /\ Count(3, K) = 0
        /\ GotFor(K)
        /\ get_out.kind = "binding"
        /\ get_out.binding = TheBinding(2, K)

\* C5: whenever an implicit tier holds two or more bindings for K and no
\* higher-priority tier holds exactly one binding for K, the merge succeeds
\* (the explicit list having no duplicate) and get(K) fails with
\* AmbiguousArgNameError, whatever lower-priority tiers hold for K.
C5_AmbiguityNeverMasked ==
    (merge_out # NotRun /\ ~ExplicitHasDuplicate) =>
        \A K \in MergeKeys :
            (\E t \in ImplicitTiers :
                /\ Count(t, K) >= 2
                /\ \A u \in Tiers : u > t => Count(u, K) # 1) =>
                /\ Merged
                /\ GotFor(K) => get_out.kind = "AmbiguousArgNameError"

\* C6: on the mapping built from a successful merge, get(K) fails with
\* NothingInjectableForArgError exactly when no tier holds a binding for K;
\* a key declared in some tier is in the resolved map or the collided table.
C6_NothingInjectableIffUndeclared ==
    Merged =>
        \A K \in MergeKeys :
            LET declared == \E t \in Tiers : Count(t, K) >= 1
            IN  /\ declared <=> K \in Resolved \cup Collided
                /\ GotFor(K) =>
                       (get_out.kind = "NothingInjectableForArgError"
                            <=> ~declared)

C6_Witness ==
    /\ Merged
    /\ \E K, J \in MergeKeys :
        /\ \A t \in Tiers : Count(t, K) = 0
        /\ \E t \in ImplicitTiers : Count(t, J) >= 2
        /\ \A t \in Tiers : Count(t, J) # 1
        /\ GotFor(K)
        /\ get_out.kind = "NothingInjectableForArgError"

(***************************************************************************)
(* Properties of BindingContext.                                           *)
(***************************************************************************)
Distinct(seq) == \A i, j \in DOMAIN seq : i # j => seq[i] # seq[j]

\* C7: get_child(key, scope_id) fails with CyclicInjectionError exactly when
\* key already occurs in the receiver's stack, the error then carrying the
\* receiver's stack followed by key; otherwise the returned context has the
\* receiver's stack with key appended and the scope scope_id.
C7_GetChildCycleOrExtend ==
    child_out # NotRun =>
        LET stack == contexts[child_out.receiver].binding_key_stack
            occurs == \E i \in 1..Len(stack) : stack[i] = child_out.binding_key
        IN  /\ child_out.kind = "CyclicInjectionError" <=> occurs
            /\ child_out.kind = "CyclicInjectionError" =>
                   child_out.binding_key_stack
                       = stack \o <<child_out.binding_key>>
            /\ child_out.kind = "context" =>
                   /\ contexts[child_out.child].binding_key_stack
                          = stack \o <<child_out.binding_key>>
                   /\ contexts[child_out.child].scope_id = child_out.scope_id

C7_Witness ==
    /\ child_out.kind = "CyclicInjectionError"
    /\ Len(child_out.binding_key_stack) = 3
    /\ child_out.binding_key_stack[1] = child_out.binding_key_stack[3]
    /\ \E c \in DOMAIN contexts :
          /\ Len(contexts[c].binding_key_stack) = 3
          /\ SubSeq(contexts[c].binding_key_stack, 1, 2)
                 = SubSeq(child_out.binding_key_stack, 1, 2)

\* C8: every context reached from new_binding_context() by get_child calls
\* has a stack of pairwise distinct keys, so over n binding keys no chain
\* is deeper than n and get_child on a context of depth n always raises.
C8_StacksDistinctAndBounded ==
    /\ \A c \in DOMAIN contexts :
          /\ Distinct(contexts[c].binding_key_stack)
          /\ Len(contexts[c].binding_key_stack) <= Cardinality(ContextKeys)
    /\ (child_out # NotRun
          /\ Len(contexts[child_out.receiver].binding_key_stack)
                 = Cardinality(ContextKeys))
          => child_out.kind = "CyclicInjectionError"

C8_Witness ==
    /\ child_out.kind = "CyclicInjectionError"
    /\ Len(contexts[child_out.receiver].binding_key_stack)
           = Cardinality(ContextKeys)

\* The contexts a context was derived from, itself included.
RECURSIVE Chain(_)
Chain(c) == IF c = 0 THEN {} ELSE {c} \cup Chain(contexts[c].parent)

\* The keys with which the contexts of the chain of c were derived.
ChainKeys(c) ==
    {contexts[d].binding_key_stack[Len(contexts[d].binding_key_stack)] :
        d \in {e \in Chain(c) : contexts[e].parent # 0}}

\* C10: with several resolution chains (separate roots, sibling branches)
\* interleaved, get_child raises CyclicInjectionError only if the key was
\* used to derive a context of the receiver's own chain; a key in progress
\* in another chain or a sibling branch never makes it raise.
C10_CycleScopedToChain ==
    child_out # NotRun =>
        (child_out.kind = "CyclicInjectionError"
            <=> child_out.binding_key \in ChainKeys(child_out.receiver))

C10_Witness ==
    /\ child_out.kind = "context"
    /\ \E e \in DOMAIN contexts :
          /\ child_out.receiver < e /\ e < child_out.child
          /\ Chain(e) \cap Chain(child_out.child) = {}
          /\ child_out.binding_key \in Range(contexts[e].binding_key_stack)

(***************************************************************************)
(* Properties of Binder.bind.                                              *)
(***************************************************************************)
\* The bindings thread t appended to the shared list, in list order.
AppendedBy(t) ==
    LET ByT(b) == b.desc[1] = t
    IN  SelectSeq(collected_bindings, ByT)

\* The calls of thread t whose binding must be in the list: those that
\* returned, then the one that has appended and not yet released the lock.
AppendsOf(t) ==
    returned[t] \o (IF pc[t] = "release"
                    THEN <<[args |-> frame[t].args,
                            back_frame |-> frame[t].back_frame]>>
                    ELSE <<>>)

AllIdle == \A t \in Threads : pc[t] = "idle"

\* C9: under every interleaving of bind calls of several threads, the
\* shared list holds its initial content and exactly one Binding per call
\* that completed its append (finally: per call that returned), each with
\* the key and scope of its call, those of one thread in its call order.
C9_ConcurrentBindsAllKept ==
    /\ SubSeq(collected_bindings, 1, Len(initial_bindings)) = initial_bindings
    /\ \A i \in Len(initial_bindings) + 1 .. Len(collected_bindings) :
          collected_bindings[i].desc[1] \in Threads
    /\ \A t \in Threads :
          /\ Len(AppendedBy(t)) = Len(AppendsOf(t))
          /\ \A i \in 1..Len(AppendsOf(t)) :
                /\ AppendedBy(t)[i].desc = AppendsOf(t)[i].back_frame
                /\ AppendedBy(t)[i].binding_key
                       = new_binding_key(AppendsOf(t)[i].args.arg_name,
                                         AppendsOf(t)[i].args.annotated_with)
                /\ AppendedBy(t)[i].scope_id = AppendsOf(t)[i].args.in_scope
          /\ \A i \in 1..Len(returned[t]) : returned[t][i].back_frame = <<t, i>>

C9_Witness ==
    /\ AllIdle
    /\ Len(returned["t1"]) = 2
    /\ Len(returned["t2"]) = 1
    /\ returned["t1"][1].args.in_scope # returned["t1"][2].args.in_scope
    /\ returned["t1"][1].args.arg_name # returned["t1"][2].args.arg_name
    /\ LET n == Len(initial_bindings)
       IN  /\ n = 1
           /\ Len(collected_bindings) = n + 3
           /\ collected_bindings[n + 1].desc = <<"t1", 1>>
           /\ collected_bindings[n + 2].desc = <<"t2", 1>>
           /\ collected_bindings[n + 3].desc = <<"t1", 2>>
    /\ bind_out.kind = "UnknownScopeError"

\* ---------------------------------------------------------------------
\* Claims about declaring bindings (SpecDeclare).
\* ---------------------------------------------------------------------

BindFinished == bind_out # NotRun
Targets(args) ==
    {name \in {"to_class", "to_instance", "to_provider"} : args[name] # None}

\* Every provider binding get_explicit_bindings comes across: those of the
\* functions and those of the member functions of the classes.
CollectedProviderBindings ==
    IF collect_in = NotRun THEN {}
    ELSE Range(ProviderBindingsOf(collect_in.functions))
         \cup UNION {Range(ProviderBindingsOf(collect_in.classes[c].members)) :
                         c \in DOMAIN collect_in.classes}

\* C11: a scope outside the known set always yields UnknownScopeError.
\* A bind call whose in_scope is not in scope_ids fails with
\* UnknownScopeError whatever its targets, no call in progress and no
\* binding of the accumulator carries an unknown scope, and
\* get_explicit_bindings fails with UnknownScopeError exactly when some
\* collected provider binding has a scope outside scope_ids; the bindings
\* it returns all have a known scope.
C11_UnknownScopeAlwaysRaises ==
    /\ BindFinished /\ bind_out.args.in_scope \notin scope_ids
           => bind_out.kind = "UnknownScopeError"
    /\ \A t \in Threads :
           pc[t] # "idle" => frame[t].args.in_scope \in scope_ids
    /\ \A i \in DOMAIN collected_bindings :
           collected_bindings[i].scope_id \in scope_ids
    /\ collect_out # NotRun =>
           /\ collect_out.kind = "UnknownScopeError"
                  <=> \E b \in CollectedProviderBindings :
                          b.scope_id \notin scope_ids
           /\ collect_out.kind = "UnknownScopeError"
                  => collect_out.scope_id \notin scope_ids
           /\ collect_out.kind = "bindings"
                  => \A i \in DOMAIN collect_out.explicit_bindings :
                         collect_out.explicit_bindings[i].scope_id
                             \in scope_ids

\* A bind call with an unknown scope and two targets has failed with
\* UnknownScopeError on a binder that accepted another call before.
C11_Witness ==
    /\ BindFinished
    /\ bind_out.kind = "UnknownScopeError"
    /\ bind_out.args.in_scope = UnknownScope
    /\ Cardinality(Targets(bind_out.args)) = 2
    /\ Len(collected_bindings) > Len(initial_bindings)

\* The errors of create_proviser_fn that depend on the number of targets
\* alone, for the finished bind call.
TargetCountErrors ==
    /\ bind_out.args.to_class # None /\ bind_out.args.to_instance # None
           => bind_out.kind = "MultipleBindingTargetsError"
    /\ Targets(bind_out.args) = {}
           => bind_out.kind = "NoBindingTargetError"
    /\ Cardinality(Targets(bind_out.args)) > 1
           => bind_out.kind = "MultipleBindingTargetsError"
    /\ bind_out.kind = "InvalidBindingTargetError"
           => Cardinality(Targets(bind_out.args)) = 1

\* C12 as stated: a bind call with both to_class and to_instance fails with
\* MultipleBindingTargetsError, a call with no target fails with
\* NoBindingTargetError, and the number of targets is checked before the
\* shape of any target, whatever the other arguments of the call.
C12_TargetCountChecked ==
    BindFinished => TargetCountErrors

\* C12, amended: the same for the bind calls whose in_scope is one of the
\* binder's scope_ids; a call with another in_scope fails with
\* UnknownScopeError before its targets are looked at.
C12_TargetCountCheckedInKnownScope ==
    BindFinished =>
        IF bind_out.args.in_scope \in scope_ids
        THEN TargetCountErrors
        ELSE bind_out.kind = "UnknownScopeError"

\* A call in a known scope with a to_class that is no class and a
\* to_instance has failed with MultipleBindingTargetsError.
C12_Witness ==
    /\ BindFinished
    /\ bind_out.args.in_scope \in scope_ids
    /\ bind_out.args.to_class = some_fn
    /\ bind_out.args.to_instance # None
    /\ bind_out.kind = "MultipleBindingTargetsError"

FailureKinds ==
    {"UnknownScopeError", "NoBindingTargetError",
     "MultipleBindingTargetsError", "InvalidBindingTargetError"}

\* The Binding a successful call must have appended.
ExpectedBinding(call) ==
    Binding(new_binding_key(call.args.arg_name, call.args.annotated_with),
            create_proviser_fn(
                new_binding_key(call.args.arg_name, call.args.annotated_with),
                call.args.to_class, call.args.to_instance,
                call.args.to_provider),
            call.args.in_scope, call.back_frame)

\* The accumulator is its initial content followed by one Binding per
\* successful call of the caller, in call order.
Accumulated ==
    collected_bindings
        = initial_bindings
              \o [i \in 1..Len(AppendsOf("t1")) |->
                      ExpectedBinding(AppendsOf("t1")[i])]

\* A step that ends a bind call with an error leaves the accumulator as
\* it was.
FailedCallKeepsAccumulator ==
    bind_out' # bind_out /\ bind_out'.kind \in FailureKinds
        => collected_bindings' = collected_bindings

\* C20: a bind call that fails with UnknownScopeError,
\* NoBindingTargetError, MultipleBindingTargetsError or
\* InvalidBindingTargetError leaves the accumulator unchanged and a call
\* that succeeds appends exactly one Binding at the end: at every moment
\* the accumulator is its initial content followed by one binding per
\* successful call, in call order.
C20_AccumulatorIsInitialPlusSuccesses ==
    [](Accumulated /\ (BindFinished => bind_out.kind \in FailureKinds \cup {"returned"}))
        /\ [][FailedCallKeepsAccumulator]_vars

\* After two successful calls on a binder that started with one binding,
\* a call with a target of the wrong shape has failed.
C20_Witness ==
    /\ BindFinished
    /\ bind_out.kind = "InvalidBindingTargetError"
    /\ initial_bindings # <<>>
    /\ Len(returned["t1"]) = 2
    /\ returned["t1"][1].args # returned["t1"][2].args
    /\ Len(collected_bindings) = 3

\* ---------------------------------------------------------------------
\* BindingKey.__eq__, __ne__ and __hash__.
\* ---------------------------------------------------------------------

MaxKeys == 2

\* The objects a key is annotated with; None stands for no annotation.
AnnotationObjects == {"a", "b"}

\* An object that is no BindingKey.
NotABindingKey == [kind |-> "object"]

isinstance_BindingKey(other) == DOMAIN other = {"arg_name", "annotation"}

\* Python's hash of the strings in use; distinct strings may share a hash.
HashTable == [foo |-> 1, bar |-> 2, a |-> 1, b |-> 3]
hash(obj) == HashTable[obj]

\* Equality and hash of the annotation objects: two annotations are
\* equal when both wrap equal objects or both are the sentinel.
Annotation_eq(self, other) == self[1] = other[1] /\ self[2] = other[2]
Annotation_hash(self) == IF self = NO_ANNOTATION THEN 0 ELSE hash(self[2])

\* The operator ^ on non-negative integers.
RECURSIVE Xor(_, _)
Xor(a, b) ==
    IF a = 0 THEN b
    ELSE IF b = 0 THEN a
    ELSE ((a + b) % 2) + (2 * Xor(a \div 2, b \div 2))

\* Variant: the annotation is left out of the comparison.
BindingKey_eq_NameOnly(self, other) ==
    /\ isinstance_BindingKey(other)
    /\ self.arg_name = other.arg_name

\* Lines 85-88.
BindingKey_eq(self, other) ==
    /\ isinstance_BindingKey(other)
    /\ self.arg_name = other.arg_name
    /\ Annotation_eq(self.annotation, other.annotation)

\* Lines 90-91.
BindingKey_ne(self, other) == ~BindingKey_eq(self, other)

\* Lines 93-94.
BindingKey_hash(self) ==
    Xor(hash(self.arg_name), Annotation_hash(self.annotation))

InitKeys ==
    /\ key_in = <<>>
    /\ key_out = NotRun
    /\ CollectUnused /\ NamesUnused
    /\ MergeUnused /\ ContextUnused /\ BinderUnused

\* new_binding_key(arg_name) or new_binding_key(arg_name, annotated_with).
NewBindingKey(arg_name, annotated_with) ==
    /\ Len(key_in) < MaxKeys
    /\ key_in' = Append(key_in, new_binding_key(arg_name, annotated_with))
    /\ UNCHANGED <<key_out, collectVars, nameVars, mergeVars, contextVars,
                   binderVars>>

\* self == other, self != other and the hashes, for a key and any object.
Compare(self, other) ==
    /\ key_out' = [self |-> self, other |-> other,
                    eq |-> BindingKey_eq(self, other),
                    ne |-> BindingKey_ne(self, other),
                    hash |-> BindingKey_hash(self),
                    other_hash |-> IF isinstance_BindingKey(other)
                                   THEN BindingKey_hash(other)
                                   ELSE None]
    /\ UNCHANGED <<key_in, collectVars, nameVars, mergeVars, contextVars,
                   binderVars>>

NewBindingKeyAny ==
    \E arg_name \in ArgNames, annotated_with \in AnnotationObjects \cup {None} :
        NewBindingKey(arg_name, annotated_with)

CompareKeys ==
    \E i, j \in DOMAIN key_in : Compare(key_in[i], key_in[j])

CompareWithObject ==
    \E i \in DOMAIN key_in : Compare(key_in[i], NotABindingKey)

NextKeys == NewBindingKeyAny \/ CompareKeys \/ CompareWithObject

SpecKeys == InitKeys /\ [][NextKeys]_vars

Compared == key_out # NotRun
Unannotated(key) == key.annotation = NO_ANNOTATION

\* C13: two BindingKeys are equal if and only if their argument names are
\* equal and their annotations are equal; a key built without an
\* annotation carries the sentinel, so it equals every un-annotated key of
\* the same name and no annotated key; a key equals no object of another
\* type; != is the negation of ==; equal keys have equal hashes.
C13_KeyEqualityAndHash ==
    /\ \A i \in DOMAIN key_in :
           key_in[i].annotation = NO_ANNOTATION
               \/ key_in[i].annotation \in {Annotation(obj) : obj \in AnnotationObjects}
    /\ Compared =>
           /\ key_out.ne = ~key_out.eq
           /\ IF key_out.other = NotABindingKey
              THEN ~key_out.eq
              ELSE /\ key_out.eq
                          <=> /\ key_out.self.arg_name = key_out.other.arg_name
                              /\ key_out.self.annotation
                                     = key_out.other.annotation
                   /\ Unannotated(key_out.self) /\ Unannotated(key_out.other)
                          => (key_out.eq <=> key_out.self.arg_name
                                                 = key_out.other.arg_name)
                   /\ Unannotated(key_out.self) # Unannotated(key_out.other)
                          => ~key_out.eq
                   /\ key_out.eq => key_out.hash = key_out.other_hash

\* Two un-annotated keys of one name, built by two calls, compared equal
\* with equal hashes.
C13_Witness ==
    /\ Compared
    /\ Len(key_in) = 2
    /\ Unannotated(key_in[1]) /\ Unannotated(key_in[2])
    /\ key_out.self = key_in[1] /\ key_out.other = key_in[2]
    /\ key_out.eq /\ key_out.hash = key_out.other_hash

\* ---------------------------------------------------------------------
\* default_get_arg_names_from_class_name.  A string is a sequence of
\* characters.
\* ---------------------------------------------------------------------

MaxNameLen == 5

UpperCase == {"F", "B"}
LowerCase == {"o"}
Chars == UpperCase \cup LowerCase \cup {"_", "1", "\n"}

\* str.lower on one character.
lower(char) == IF char = "F" THEN "f" ELSE IF char = "B" THEN "b" ELSE char

\* The length of the longest prefix of string made of characters of class.
RECURSIVE RunLength(_, _)
RunLength(string, class) ==
    IF string = <<>> \/ Head(string) \notin class THEN 0
    ELSE 1 + RunLength(Tail(string), class)

\* re.match returns None: the pattern does not match.
NoMatch == [kind |-> "None"]

\* Variant: the pattern ([A-Z][a-z]*)(.*), a word may be one capital.
re_match_AnyCapital(rest) ==
    IF rest = <<>> \/ rest[1] \notin UpperCase
    THEN NoMatch
    ELSE LET word_len == 1 + RunLength(Tail(rest), LowerCase)
             after == SubSeq(rest, word_len + 1, Len(rest))
         IN  [kind |-> "match", group1 |-> SubSeq(rest, 1, word_len),
              group2 |-> SubSeq(after, 1,
                                RunLength(after, Chars \ {"\n"}))]

\* Line 255: re.match(r'([A-Z][a-z]+)(.*)', rest).  The first group is
\* greedy and the second one always matches, up to the end of the line.
re_match(rest) ==
    IF Len(rest) < 2 \/ rest[1] \notin UpperCase \/ rest[2] \notin LowerCase
    THEN NoMatch
    ELSE LET word_len == 1 + RunLength(Tail(rest), LowerCase)
             after == SubSeq(rest, word_len + 1, Len(rest))
         IN  [kind |-> "match", group1 |-> SubSeq(rest, 1, word_len),
              group2 |-> SubSeq(after, 1,
                                RunLength(after, Chars \ {"\n"}))]

\* Line 262: '_'.join(part.lower() for part in parts).
RECURSIVE join_lower(_)
join_lower(parts) ==
    IF parts = <<>> THEN <<>>
    ELSE [i \in 1..Len(parts[1]) |-> lower(parts[1][i])]
             \o (IF Len(parts) > 1 THEN <<"_">> ELSE <<>>)
             \o join_lower(Tail(parts))

InitNames ==
    /\ class_name \in SeqsUpTo(Chars, MaxNameLen)
    /\ names_call = NotRun
    /\ CollectUnused /\ KeysUnused
    /\ MergeUnused /\ ContextUnused /\ BinderUnused

\* Lines 250-253: the call starts and strips one leading underscore.
NamesEnter ==
    /\ names_call = NotRun
    /\ names_call' =
           [kind |-> "loop", parts |-> <<>>,
            rest |-> IF class_name # <<>> /\ class_name[1] = "_"
                     THEN Tail(class_name) ELSE class_name]
    /\ UNCHANGED <<class_name, collectVars, keyVars, mergeVars, contextVars,
                   binderVars>>

\* Lines 254-259: one turn of the loop that finds a word.
NamesLoop ==
    /\ names_call.kind = "loop"
    /\ re_match(names_call.rest) # NoMatch
    /\ names_call' =
           [kind |-> "loop",
            parts |-> Append(names_call.parts,
                             re_match(names_call.rest).group1),
            rest |-> re_match(names_call.rest).group2]
    /\ UNCHANGED <<class_name, collectVars, keyVars, mergeVars, contextVars,
                   binderVars>>

\* Lines 256-257 and 260-262: no word is left; the function returns.
NamesReturn ==
    /\ names_call.kind = "loop"
    /\ re_match(names_call.rest) = NoMatch
    /\ names_call' =
           [kind |-> "returned",
            names |-> IF names_call.parts = <<>> THEN <<>>
                      ELSE <<join_lower(names_call.parts)>>]
    /\ UNCHANGED <<class_name, collectVars, keyVars, mergeVars, contextVars,
                   binderVars>>

NextNames == NamesEnter \/ NamesLoop \/ NamesReturn

SpecNames == InitNames /\ [][NextNames]_vars

\* The call runs on: a step that is possible is taken.
SpecNamesFair == SpecNames /\ WF_vars(NextNames)

\* The name without its one leading underscore.
Stripped ==
    IF class_name # <<>> /\ class_name[1] = "_"
    THEN Tail(class_name) ELSE class_name

\* A prefix of the stripped name made of words, each an uppercase letter
\* followed by one or more lowercase letters.
IsWords(n) ==
    /\ n \in 1..Len(Stripped)
    /\ Stripped[1] \in UpperCase
    /\ Stripped[n] \in LowerCase
    /\ \A i \in 1..n : Stripped[i] \in UpperCase \cup LowerCase
    /\ \A i \in 1..(n - 1) :
           Stripped[i] \in UpperCase => Stripped[i + 1] \in LowerCase

\* The leading words: the longest such prefix, as its length.
LeadingWordsLen ==
    IF \E n \in 1..Len(Stripped) : IsWords(n)
    THEN CHOOSE n \in 1..Len(Stripped) :
             IsWords(n) /\ \A k \in 1..Len(Stripped) : IsWords(k) => k <= n
    ELSE 0

\* The leading words in lowercase, an underscore before every word but
\* the first.
RECURSIVE LowerWithUnderscores(_)
LowerWithUnderscores(n) ==
    IF n = 0 THEN <<>>
    ELSE LowerWithUnderscores(n - 1)
             \o (IF n > 1 /\ Stripped[n] \in UpperCase THEN <<"_">> ELSE <<>>)
             \o <<lower(Stripped[n])>>

NamesReturned == names_call.kind = "returned"

\* What the call returns: at most one name, the leading words of the
\* stripped name in lower_with_underscores, or nothing when the stripped
\* name starts with no word.
NamesResult ==
    NamesReturned =>
        /\ Len(names_call.names) <= 1
        /\ names_call.names
               = IF LeadingWordsLen = 0 THEN <<>>
                 ELSE <<LowerWithUnderscores(LeadingWordsLen)>>

\* C14: default_get_arg_names_from_class_name terminates on every name
\* and returns at most one name: after stripping one leading underscore,
\* the lowercase, underscore-joined sequence of the leading words
\* (an uppercase letter followed by one or more lowercase letters), and
\* the empty list when the name starts with no such word.
C14_ArgNamesFromClassName ==
    []NamesResult /\ <>NamesReturned

\* The class name _FoBo has given the one name fo_bo.
C14_Witness ==
    /\ class_name = <<"_", "F", "o", "B", "o">>
    /\ NamesReturned
    /\ names_call.names = << <<"f", "o", "_", "b", "o">> >>

\* ---------------------------------------------------------------------
\* Claims about the lookup and about single tiers (SpecMerge).
\* ---------------------------------------------------------------------

\* The maps are those the merge built and the last result is the lookup
\* of its key in them, however many calls of get came before.
LookupInMergedMaps ==
    Merged =>
        /\ merge_out = get_overall_binding_key_to_binding_maps(bindings_lists)
        /\ get_out # NotRun =>
               get_out = BindingMapping_get(
                             get_overall_binding_key_to_binding_maps(
                                 bindings_lists),
                             get_out.binding_key)

\* A call of get leaves both maps as they were, and a call for the key of
\* the call before gives the result of the call before.
GetChangesNothing ==
    Merged =>
        /\ merge_out' = merge_out
        /\ get_out # NotRun /\ get_out'.binding_key = get_out.binding_key
               => get_out' = get_out

\* C15: BindingMapping.get is a pure lookup: any sequence of get calls,
\* returning or raising, leaves both maps of the mapping unchanged, so
\* get(key) called again gives the same binding or the same error with
\* the same key and bindings.
C15_GetIsPureLookup ==
    []LookupInMergedMaps /\ [][GetChangesNothing]_vars

\* A get that raised AmbiguousArgNameError on a mapping that also has
\* resolved keys.
C15_Witness ==
    /\ Merged
    /\ get_out # NotRun
    /\ get_out.kind = "AmbiguousArgNameError"
    /\ Cardinality(get_out.bindings) >= 2
    /\ Resolved # {}

TiersMerged == merge_out # NotRun
TierResolved(t) == DOMAIN tier_out[t].binding_key_to_binding
TierCollided(t) == DOMAIN tier_out[t].collided_binding_key_to_bindings

\* C16: within one implicit tier, a key with two or more bindings is
\* absent from the tier's resolved map and is in its collided table with
\* exactly the set of all its bindings in the tier, in whatever order
\* they are listed; a key with exactly one binding in the tier is
\* resolved to it (and not collided), and a key with none is in neither.
C16_TierCollisionKeepsAllBindings ==
    TiersMerged =>
        \A t \in ImplicitTiers, K \in MergeKeys :
            /\ tier_out[t].kind = "maps"
            /\ Count(t, K) >= 2 =>
                   /\ K \notin TierResolved(t)
                   /\ K \in TierCollided(t)
                   /\ tier_out[t].collided_binding_key_to_bindings[K]
                          = BindingsFor(t, K)
            /\ Count(t, K) = 1 =>
                   /\ K \in TierResolved(t)
                   /\ tier_out[t].binding_key_to_binding[K] = TheBinding(t, K)
                   /\ K \notin TierCollided(t)
            /\ Count(t, K) = 0 =>
                   K \notin TierResolved(t) \cup TierCollided(t)

\* An implicit tier with three bindings for one key, a binding for another
\* key listed between them.
C16_Witness ==
    /\ TiersMerged
    /\ \E t \in ImplicitTiers :
           \E K, J \in MergeKeys :
               /\ Count(t, K) = 3
               /\ Count(t, J) = 1
               /\ bindings_lists[t][2].binding_key = J
               /\ Cardinality(
                      tier_out[t].collided_binding_key_to_bindings[K]) = 3

\* The tiers that collide on K on their own, and all their bindings for K.
CollidingTiers(K) == {t \in Tiers : Count(t, K) >= 2}
CollidingBindings(K) == UNION {BindingsFor(t, K) : t \in CollidingTiers(K)}

\* C17: when two implicit tiers each hold two or more bindings for K and
\* no tier holds exactly one, K is collided after the merge (and not
\* resolved) and its collided set, the one AmbiguousArgNameError carries
\* out of get(K), is the full set of colliding bindings of both tiers.
C17_CollidedSetIsFull ==
    Merged =>
        \A K \in MergeKeys :
            Cardinality(CollidingTiers(K) \cap ImplicitTiers) >= 2
                /\ CleanTiers(K) = {}
            => /\ K \in Collided
               /\ K \notin Resolved
               /\ merge_out.collided_binding_key_to_bindings[K]
                      = CollidingBindings(K)
               /\ GotFor(K) =>
                      /\ get_out.kind = "AmbiguousArgNameError"
                      /\ get_out.bindings = CollidingBindings(K)

\* The collision of tier t on K is erased: a later tier holds exactly one
\* binding for K.
Erased(t, K) == \E u \in CleanTiers(K) : u > t

\* C18: the reference result of a merge that does not raise.  The
\* resolved map holds K exactly when some tier holds exactly one binding
\* for K, and maps K to the binding of the highest-priority such tier,
\* also when a later implicit tier collides on K.  A collision on K in a
\* tier is erased from the collided table exactly when a later tier holds
\* exactly one binding for K: K is in the table exactly when some tier
\* collides on K with no such later tier.
C18_ReferenceResult ==
    Merged =>
        \A K \in MergeKeys :
            /\ K \in Resolved <=> CleanTiers(K) # {}
            /\ K \in Resolved =>
                   merge_out.binding_key_to_binding[K]
                       = TheBinding(HighestClean(K), K)
            /\ K \in Collided
                   <=> \E t \in CollidingTiers(K) : ~Erased(t, K)
            /\ K \in Collided =>
                   merge_out.collided_binding_key_to_bindings[K]
                       \subseteq CollidingBindings(K)

\* One key resolved by the lowest tier while the next implicit tier
\* collides on it, another key whose collision no later tier erases.
C18_Witness ==
    /\ Merged
    /\ Len(bindings_lists) = 3
    /\ \E K, J \in MergeKeys :
           /\ Count(1, K) = 1 /\ Count(2, K) = 2 /\ Count(3, K) = 0
           /\ K \in Resolved /\ K \in Collided
           /\ merge_out.binding_key_to_binding[K] = TheBinding(1, K)
           /\ Count(1, J) = 2 /\ Count(2, J) = 0 /\ Count(3, J) = 0
           /\ J \in Collided \ Resolved

\* ---------------------------------------------------------------------
\* Claims about the immutability of contexts (SpecContext).
\* ---------------------------------------------------------------------

\* A context got from new_binding_context has an empty stack; a context
\* got from get_child has the stack of its receiver plus one key.
ChildrenExtendParent ==
    \A c \in DOMAIN contexts :
        LET stack == contexts[c].binding_key_stack
        IN  IF contexts[c].parent = 0
            THEN stack = <<>>
            ELSE /\ contexts[c].parent \in 1..(c - 1)
                 /\ Len(stack) >= 1
                 /\ SubSeq(stack, 1, Len(stack) - 1)
                        = contexts[contexts[c].parent].binding_key_stack

\* A step leaves every context that exists, stack and scope, as it was.
ContextsKept ==
    \A c \in DOMAIN contexts :
        c \in DOMAIN contexts' /\ contexts'[c] = contexts[c]

\* C19: get_child never changes its receiver: after a call that returns a
\* child or raises CyclicInjectionError, the receiver's stack and scope
\* and the stacks of all contexts derived before are what they were, so
\* the children of one parent each have the parent's stack plus only
\* their own key.
C19_GetChildKeepsReceiver ==
    []ChildrenExtendParent /\ [][ContextsKept]_vars

\* Two children of one parent with different keys, then a call on that
\* parent that raised.
C19_Witness ==
    /\ child_out.kind = "CyclicInjectionError"
    /\ \E c1, c2 \in DOMAIN contexts :
           /\ c1 # c2
           /\ contexts[c1].parent = child_out.receiver
           /\ contexts[c2].parent = child_out.receiver
           /\ contexts[c1].binding_key_stack # contexts[c2].binding_key_stack
           /\ Len(contexts[c1].binding_key_stack) = 2
           /\ Len(contexts[c2].binding_key_stack) = 2
====
